---- MODULE Spec2Model ----
(***************************************************************************)
(* Behavior tree nodes of src/src/BehaviorTree.cpp: the composites         *)
(* (CompositeNode, Selector, RandomSelector, Sequence, RandomSequence) and *)
(* the decorators (DecoratorNode, Inverter, Succeeder, Failer, Repeater,   *)
(* RepeatUntilFail, RepeatUntilSuccess, Limiter, DelayTime, TimeLimit).    *)
(*                                                                         *)
(* One node is modelled: a composite under Spec and SpecShuffle, a         *)
(* decorator under SpecDecorator.  Its children are opaque leaf nodes      *)
(* (Node::update is pure virtual): every poll of a child may return any    *)
(* NODE_STATE.  Child indices are 0-based as in the code; the children     *)
(* vector is a TLA+ sequence, so children.at(i) is children[i + 1].        *)
(***************************************************************************)
EXTENDS Integers, Sequences, FiniteSets, TLC

\* ---------------------------------------------------------------- bounds
\* Largest children vector of a Selector / Sequence.
MaxChildren == 3
\* Largest children vector of a RandomSelector / RandomSequence.
MaxShuffled == 2
\* Largest vector handed to addChildren.
MaxBatch == 2
\* Children handed to the constructor of the random composite of SpecShuffle.
ShuffleN == 3
\* Largest repeat count of a Repeater / RepeatUntil.
MaxRepeat == 2
\* Largest limit of a Limiter.
MaxLimit == 2
\* Longest duration of a DelayTime / TimeLimit.
MaxDuration == 2
\* Polls of the child after which an unbounded loop counts as never ending.
MaxPolls == 3
\* Frame times handed to update.
Deltas == {0, 1}
\* Frame times handed to the update of a decorator, which counts them up
\* against a duration.
DecoratorDeltas == {0, 1, 2}

\* ------------------------------------------------------------- constants
INFINITE_CHILDREN == -1
NO_RUNNING_CHILD == -1
nullptr == 0
NODE_STATE == {"SUCCESS", "FAILURE", "RUNNING", "ERROR"}
Kinds == {"Selector", "RandomSelector", "Sequence", "RandomSequence"}
REPEAT_INFINITE == -1
Decorators == {"Inverter", "Succeeder", "Failer", "Repeater", "RepeatUntilFail",
               "RepeatUntilSuccess", "Limiter", "DelayTime", "TimeLimit"}

VARIABLES
    kind,               \* the concrete class of the composite
    IGNORE_ERROR,       \* namespace-level flag
    children,           \* CompositeNode::children (node ids, nullptr = 0)
    maxChildrenSize,    \* CompositeNode::maxChildrenSize
    runningChildIndex,  \* CompositeNode::runningChildIndex
    needShuffle,        \* RandomSelector / RandomSequence::needShuffle
    shuffleOrder,       \* what std::shuffle with a fresh default engine does
    pc,                 \* "idle", or "setMaxLoop" inside the clean-up loop
    lastOp,             \* the call that returned last
    ret,                \* its return value
    polled,             \* child polls made by the last update, in order
    prevRunning,        \* runningChildIndex when the last update started
    runningNode,        \* the child that last returned RUNNING, if it lives
    arg,                \* the arguments of the last call, as passed
    argAfter            \* the caller's unique_ptr arguments after the call

compVars == <<kind, IGNORE_ERROR, children, maxChildrenSize, runningChildIndex,
              needShuffle, shuffleOrder, pc, lastOp, ret, polled, prevRunning,
              runningNode, arg, argAfter>>

VARIABLES
    decorator,           \* the concrete class of the decorator, or "none"
    decChild,            \* DecoratorNode::child (a node id, nullptr = 0)
    repeatArg,           \* the repeat argument the constructor was given
    repeat,              \* Repeat::repeat
    limit,               \* Limiter::limit
    limitCount,          \* Limiter::limitCount
    duration,            \* DelayTime / TimeLimit::duration
    elapsedTime,         \* DelayTime / TimeLimit::elapsedTime
    delayOnce,           \* DelayTime::delayOnce
    childUpdateFinished, \* DelayTime::childUpdateFinished
    result,              \* DelayTime::result
    statusResult         \* Locker::statusResult (BTree revision)

decVars == <<decorator, decChild, repeatArg, repeat, limit, limitCount,
             duration, elapsedTime, delayOnce, childUpdateFinished, result,
             statusResult>>

vars == <<compVars, decVars>>

IsRandom(k) == k \in {"RandomSelector", "RandomSequence"}
IsSelector(k) == k \in {"Selector", "RandomSelector"}
IsSequence(k) == k \in {"Sequence", "RandomSequence"}

\* The bound on the children vector of a composite of class k.
MaxFor(k) == IF IsRandom(k) THEN MaxShuffled ELSE MaxChildren

\* children.at(i)
At(chs, i) == chs[i + 1]

\* A node that is not owned by the composite: the smallest unused id.
FreshNode(chs) ==
    CHOOSE n \in 1..(Len(chs) + 1) :
        /\ \A i \in 1..Len(chs) : chs[i] # n
        /\ \A m \in 1..(n - 1) : \E i \in 1..Len(chs) : chs[i] = m

\* All orders of 1..n.
Perms(n) == {p \in [1..n -> 1..n] : \A i, j \in 1..n : p[i] = p[j] => i = j}

\* addChild that puts the new child in front.
addChild_Front(chs, child) ==
    IF child # nullptr THEN <<child>> \o chs ELSE chs

\* -------------------------------------------------------------- addChild
\* CompositeNode::addChild: the vector after the call (child = nullptr is
\* ignored).
addChild(chs, child) ==
    IF child # nullptr THEN Append(chs, child) ELSE chs

\* CompositeNode::addChild: return value.
addChildRet(child) == child # nullptr

\* ----------------------------------------------------------- addChildren
\* The caller's vector: the pattern [b1, b2, ...] of booleans says which
\* entries are non-null; those hold nodes owned by nobody else (`used').
RECURSIVE BatchOf(_, _)
BatchOf(used, pattern) ==
    IF pattern = <<>> THEN <<>>
    ELSE LET n == IF Head(pattern) THEN FreshNode(used) ELSE nullptr IN
         <<n>> \o BatchOf(IF n # nullptr THEN Append(used, n) ELSE used,
                          Tail(pattern))

\* for (auto& child : children) this->addChild(std::move(child));
RECURSIVE addAll(_, _)
addAll(chs, batch) ==
    IF batch = <<>> THEN chs
    ELSE addAll(addChild(chs, Head(batch)), Tail(batch))

\* A unique_ptr that was moved from holds nullptr.
movedFrom(batch) == [i \in 1..Len(batch) |-> nullptr]

\* addChildren that also rejects a batch that exactly fills the cap.
addChildrenRejects_OffByOne(chs, maxSize, batch) ==
    \/ batch = <<>>
    \/ /\ maxSize # INFINITE_CHILDREN
       /\ Len(chs) + Len(batch) >= maxSize

\* CompositeNode::addChildren: is the batch rejected?
addChildrenRejects(chs, maxSize, batch) ==
    \/ batch = <<>>
    \/ /\ maxSize # INFINITE_CHILDREN
       /\ Len(chs) + Len(batch) > maxSize

\* ------------------------------------------------- isRunningChildIndexValid
isRunningChildIndexValid(chs, running) ==
    (running < Len(chs)) /\ (running # NO_RUNNING_CHILD)

\* One poll of a child, as logged.
Poll(chs, i, st) == [index |-> i, node |-> At(chs, i), state |-> st]

\* updateRunningChild that forgets the running child although it is still
\* RUNNING.
updateRunningChild_ClearsOnRunning(chs, running, start) ==
    IF running < Len(chs)
    THEN { IF st = "RUNNING" \/ st = "SUCCESS"
           THEN [state |-> st, start |-> start, running |-> NO_RUNNING_CHILD,
                 log |-> <<Poll(chs, running, st)>>]
           ELSE [state |-> "FAILURE", start |-> running + 1,
                 running |-> NO_RUNNING_CHILD,
                 log |-> <<Poll(chs, running, st)>>]
         : st \in NODE_STATE }
    ELSE { [state |-> "FAILURE", start |-> start, running |-> running,
            log |-> <<>>] }

\* updateRunningChild that restarts at the failed child instead of after it.
updateRunningChild_SameStart(chs, running, start) ==
    IF running < Len(chs)
    THEN { IF st = "RUNNING"
           THEN [state |-> st, start |-> start, running |-> running,
                 log |-> <<Poll(chs, running, st)>>]
           ELSE IF st = "SUCCESS"
           THEN [state |-> st, start |-> start, running |-> NO_RUNNING_CHILD,
                 log |-> <<Poll(chs, running, st)>>]
           ELSE [state |-> "FAILURE", start |-> running,
                 running |-> NO_RUNNING_CHILD,
                 log |-> <<Poll(chs, running, st)>>]
         : st \in NODE_STATE }
    ELSE { [state |-> "FAILURE", start |-> start, running |-> running,
            log |-> <<>>] }

\* ------------------------------------------------------ updateRunningChild
\* CompositeNode::updateRunningChild.  The result is the set of outcomes, one
\* per status the running child may return: the returned state, the value
\* left in `start', the new runningChildIndex and the polls made.
updateRunningChild(chs, running, start) ==
    IF running < Len(chs)
    THEN { IF st = "RUNNING"
           THEN [state |-> st, start |-> start, running |-> running,
                 log |-> <<Poll(chs, running, st)>>]
           ELSE IF st = "SUCCESS"
           THEN [state |-> st, start |-> start, running |-> NO_RUNNING_CHILD,
                 log |-> <<Poll(chs, running, st)>>]
           ELSE [state |-> "FAILURE", start |-> running + 1,
                 running |-> NO_RUNNING_CHILD,
                 log |-> <<Poll(chs, running, st)>>]
         : st \in NODE_STATE }
    ELSE { [state |-> "FAILURE", start |-> start, running |-> running,
            log |-> <<>>] }

\* updateChildren not remembering the child that returned RUNNING.
RECURSIVE updateChildren_ForgetsRunning(_, _, _, _, _, _)
updateChildren_ForgetsRunning(chs, i, continueCondition, ignore, running, log) ==
    IF i >= Len(chs)
    THEN { [state |-> continueCondition, running |-> running, log |-> log] }
    ELSE IF At(chs, i) = nullptr
    THEN updateChildren_ForgetsRunning(chs, i + 1, continueCondition, ignore,
                                       running, log)
    ELSE UNION {
        LET log2 == Append(log, Poll(chs, i, st)) IN
        IF st = continueCondition \/ (st = "ERROR" /\ ignore)
        THEN updateChildren_ForgetsRunning(chs, i + 1, continueCondition,
                                           ignore, running, log2)
        ELSE { [state |-> st, running |-> running, log |-> log2] }
      : st \in NODE_STATE }

\* ---------------------------------------------------------- updateChildren
\* CompositeNode::updateChildren, from loop index i on.  The result is the
\* set of outcomes over every status each polled child may return.
RECURSIVE updateChildren(_, _, _, _, _, _)
updateChildren(chs, i, continueCondition, ignore, running, log) ==
    IF i >= Len(chs)
    THEN { [state |-> continueCondition, running |-> running, log |-> log] }
    ELSE IF At(chs, i) = nullptr
    THEN updateChildren(chs, i + 1, continueCondition, ignore, running, log)
    ELSE UNION {
        LET log2 == Append(log, Poll(chs, i, st)) IN
        IF st = continueCondition
        THEN updateChildren(chs, i + 1, continueCondition, ignore, running, log2)
        ELSE IF st = "ERROR"
        THEN IF ignore
             THEN updateChildren(chs, i + 1, continueCondition, ignore,
                                 running, log2)
             ELSE { [state |-> st, running |-> running, log |-> log2] }
        ELSE IF st = "RUNNING"
        THEN { [state |-> st, running |-> i, log |-> log2] }
        ELSE { [state |-> st, running |-> running, log |-> log2] }
      : st \in NODE_STATE }

\* Selector::update without the test for an empty children vector.
SelectorUpdate_NoEmptyCheck(chs, running, ignore) ==
    IF isRunningChildIndexValid(chs, running)
    THEN UNION {
        IF r.state = "SUCCESS" \/ r.state = "RUNNING"
        THEN { [state |-> r.state, running |-> r.running, log |-> r.log] }
        ELSE IF r.state = "ERROR" /\ ignore = FALSE
        THEN { [state |-> "ERROR", running |-> r.running, log |-> r.log] }
        ELSE updateChildren(chs, r.start, "FAILURE", ignore, r.running, r.log)
      : r \in updateRunningChild(chs, running, 0) }
    ELSE updateChildren(chs, 0, "FAILURE", ignore, running, <<>>)

\* Selector::update iterating with the Sequence's continue condition.
SelectorUpdate_AsSequence(chs, running, ignore) ==
    IF chs = <<>>
    THEN { [state |-> "ERROR", running |-> running, log |-> <<>>] }
    ELSE IF isRunningChildIndexValid(chs, running)
    THEN UNION {
        IF r.state = "SUCCESS" \/ r.state = "RUNNING"
        THEN { [state |-> r.state, running |-> r.running, log |-> r.log] }
        ELSE IF r.state = "ERROR" /\ ignore = FALSE
        THEN { [state |-> "ERROR", running |-> r.running, log |-> r.log] }
        ELSE updateChildren(chs, r.start, "SUCCESS", ignore, r.running, r.log)
      : r \in updateRunningChild(chs, running, 0) }
    ELSE updateChildren(chs, 0, "SUCCESS", ignore, running, <<>>)

\* --------------------------------------------------------- Selector::update
SelectorUpdate(chs, running, ignore) ==
    IF chs = <<>>
    THEN { [state |-> "ERROR", running |-> running, log |-> <<>>] }
    ELSE IF isRunningChildIndexValid(chs, running)
    THEN UNION {
        IF r.state = "SUCCESS" \/ r.state = "RUNNING"
        THEN { [state |-> r.state, running |-> r.running, log |-> r.log] }
        ELSE IF r.state = "ERROR" /\ ignore = FALSE
        THEN { [state |-> "ERROR", running |-> r.running, log |-> r.log] }
        ELSE updateChildren(chs, r.start, "FAILURE", ignore, r.running, r.log)
      : r \in updateRunningChild(chs, running, 0) }
    ELSE updateChildren(chs, 0, "FAILURE", ignore, running, <<>>)

\* Sequence::update iterating with the Selector's continue condition.
SequenceUpdate_AsSelector(chs, running, ignore) ==
    IF chs = <<>>
    THEN { [state |-> "ERROR", running |-> running, log |-> <<>>] }
    ELSE IF isRunningChildIndexValid(chs, running)
    THEN UNION {
        IF r.state = "FAILURE" \/ r.state = "RUNNING"
        THEN { [state |-> r.state, running |-> r.running, log |-> r.log] }
        ELSE IF r.state = "ERROR" /\ ignore = FALSE
        THEN { [state |-> r.state, running |-> r.running, log |-> r.log] }
        ELSE updateChildren(chs, r.start, "FAILURE", ignore, r.running, r.log)
      : r \in updateRunningChild(chs, running, 0) }
    ELSE updateChildren(chs, 0, "FAILURE", ignore, running, <<>>)

\* --------------------------------------------------------- Sequence::update
SequenceUpdate(chs, running, ignore) ==
    IF chs = <<>>
    THEN { [state |-> "ERROR", running |-> running, log |-> <<>>] }
    ELSE IF isRunningChildIndexValid(chs, running)
    THEN UNION {
        IF r.state = "FAILURE" \/ r.state = "RUNNING"
        THEN { [state |-> r.state, running |-> r.running, log |-> r.log] }
        ELSE IF r.state = "ERROR" /\ ignore = FALSE
        THEN { [state |-> r.state, running |-> r.running, log |-> r.log] }
        ELSE updateChildren(chs, r.start, "SUCCESS", ignore, r.running, r.log)
      : r \in updateRunningChild(chs, running, 0) }
    ELSE updateChildren(chs, 0, "SUCCESS", ignore, running, <<>>)

\* ----------------------------------------------------------- std::shuffle
\* std::shuffle(begin, end, std::default_random_engine{}): the engine is
\* constructed afresh, with its default seed, on every call, so a vector of
\* n elements is always rearranged by the same permutation order[n].
shuffle(chs, order) ==
    IF Len(chs) < 2 THEN chs
    ELSE [i \in 1..Len(chs) |-> chs[order[Len(chs)][i]]]

\* update shuffling on every call, a remembered running child or not.
shuffled_Always(k, chs, running, need, order) ==
    IF IsRandom(k) /\ chs # <<>>
    THEN shuffle(chs, order)
    ELSE chs

\* The order in which update of class k iterates: RandomSelector::update /
\* RandomSequence::update shuffle first, unless a child is remembered.
shuffled(k, chs, running, need, order) ==
    IF IsRandom(k) /\ chs # <<>> /\ running = NO_RUNNING_CHILD /\ need
    THEN shuffle(chs, order)
    ELSE chs

\* needShuffle after an update that returned state st.
needShuffleAfter(k, chs, st, need) ==
    IF IsRandom(k) /\ chs # <<>> THEN st # "RUNNING" ELSE need

\* update reading the IGNORE_ERROR flag the wrong way round.
KindUpdate_FlagInverted(k, chs, running, ignore) ==
    IF IsSelector(k) THEN SelectorUpdate(chs, running, ~ignore)
    ELSE SequenceUpdate(chs, running, ~ignore)

\* update of a composite of class k on the (already shuffled) vector.
KindUpdate(k, chs, running, ignore) ==
    IF IsSelector(k) THEN SelectorUpdate(chs, running, ignore)
    ELSE SequenceUpdate(chs, running, ignore)

\* No decorator is under test: its fields are not there.
NoDecorator ==
    /\ decorator = "none"
    /\ decChild = nullptr
    /\ repeatArg = 0
    /\ repeat = 0
    /\ limit = 0
    /\ limitCount = 0
    /\ duration = 0
    /\ elapsedTime = 0
    /\ delayOnce = FALSE
    /\ childUpdateFinished = FALSE
    /\ result = "none"
    /\ statusResult = "none"

\* ------------------------------------------------------------------- Init
\* A composite constructed with a nullptr child: no children, no cap, no
\* running child.  RandomSelector initialises needShuffle(true);
\* RandomSequence's constructors leave it uninitialised.
Init ==
    /\ kind \in Kinds
    /\ IGNORE_ERROR \in BOOLEAN
    /\ children = <<>>
    /\ maxChildrenSize = INFINITE_CHILDREN
    /\ runningChildIndex = NO_RUNNING_CHILD
    /\ needShuffle \in (IF kind = "RandomSequence" THEN BOOLEAN ELSE {TRUE})
    /\ shuffleOrder \in
         IF IsRandom(kind)
         THEN {f \in [2..MaxShuffled -> UNION {Perms(n) : n \in 2..MaxShuffled}] :
                  \A n \in 2..MaxShuffled : f[n] \in Perms(n)}
         ELSE {[n \in 2..MaxShuffled |-> [i \in 1..n |-> i]]}
    /\ pc = "idle"
    /\ lastOp = "none"
    /\ ret = "none"
    /\ polled = <<>>
    /\ prevRunning = NO_RUNNING_CHILD
    /\ runningNode = nullptr
    /\ arg = <<>>
    /\ argAfter = <<>>
    /\ NoDecorator

\* The child whose latest poll returned RUNNING: the last poll of an update
\* decides it; an update that polled nothing leaves it as it was.
runningNodeAfter(log, node) ==
    IF log = <<>> THEN node
    ELSE IF log[Len(log)].state = "RUNNING" THEN log[Len(log)].node
    ELSE nullptr

\* ----------------------------------------------------------------- Update
\* One call of update(delta) on the composite.
Update ==
    /\ pc = "idle"
    /\ \E delta \in Deltas :
       LET chs == shuffled(kind, children, runningChildIndex, needShuffle,
                           shuffleOrder) IN
       \E r \in KindUpdate(kind, chs, runningChildIndex, IGNORE_ERROR) :
          /\ children' = chs
          /\ runningChildIndex' = r.running
          /\ needShuffle' = needShuffleAfter(kind, chs, r.state, needShuffle)
          /\ lastOp' = "update"
          /\ ret' = r.state
          /\ polled' = r.log
          /\ prevRunning' = runningChildIndex
          /\ runningNode' = runningNodeAfter(r.log, runningNode)
    /\ arg' = <<>>
    /\ argAfter' = <<>>
    /\ UNCHANGED <<kind, IGNORE_ERROR, maxChildrenSize, shuffleOrder, pc>>
    /\ UNCHANGED decVars

\* The running node, once the vector no longer owns it, is destroyed.
StillOwned(chs, node) ==
    IF \E i \in 1..Len(chs) : chs[i] = node THEN node ELSE nullptr

\* --------------------------------------------------------------- AddChild
AddChild ==
    /\ pc = "idle"
    /\ Len(children) < MaxFor(kind)
    /\ \E isNull \in BOOLEAN :
       LET child == IF isNull THEN nullptr ELSE FreshNode(children) IN
       /\ children' = addChild(children, child)
       /\ ret' = addChildRet(child)
       /\ arg' = <<child>>
       /\ argAfter' = movedFrom(<<child>>)
    /\ lastOp' = "addChild"
    /\ polled' = <<>>
    /\ prevRunning' = NO_RUNNING_CHILD
    /\ UNCHANGED <<kind, IGNORE_ERROR, maxChildrenSize, runningChildIndex,
                   needShuffle, shuffleOrder, pc, runningNode>>
    /\ UNCHANGED decVars

\* ------------------------------------------------------------ AddChildren
AddChildren ==
    /\ pc = "idle"
    /\ \E n \in 0..MaxBatch : \E pattern \in [1..n -> BOOLEAN] :
       LET batch == BatchOf(children, pattern) IN
       /\ Len(children) + n <= MaxFor(kind)
       /\ arg' = batch
       /\ IF addChildrenRejects(children, maxChildrenSize, batch)
          THEN /\ children' = children
               /\ argAfter' = batch
               /\ ret' = FALSE
          ELSE /\ children' = addAll(children, batch)
               /\ argAfter' = movedFrom(batch)
               /\ ret' = TRUE
    /\ lastOp' = "addChildren"
    /\ polled' = <<>>
    /\ prevRunning' = NO_RUNNING_CHILD
    /\ UNCHANGED <<kind, IGNORE_ERROR, maxChildrenSize, runningChildIndex,
                   needShuffle, shuffleOrder, pc, runningNode>>
    /\ UNCHANGED decVars

\* ---------------------------------------------------------- ClearChildren
\* CompositeNode::clearChildren: children.clear() and nothing else.
ClearChildren ==
    /\ pc = "idle"
    /\ children' = <<>>
    /\ runningNode' = nullptr
    /\ lastOp' = "clearChildren"
    /\ ret' = "void"
    /\ arg' = <<>>
    /\ argAfter' = <<>>
    /\ polled' = <<>>
    /\ prevRunning' = NO_RUNNING_CHILD
    /\ UNCHANGED <<kind, IGNORE_ERROR, maxChildrenSize, runningChildIndex,
                   needShuffle, shuffleOrder, pc>>
    /\ UNCHANGED decVars

\* setMaxChildrenSize without the test for 0.
setMaxPath_NoZeroCheck(chs, maxSize, n, cleanUpRemains) ==
    IF n = Len(chs) THEN "same"
    ELSE IF n = INFINITE_CHILDREN THEN "infinite"
    ELSE IF n >= maxSize THEN "grow"
    ELSE IF Len(chs) < n THEN "fits"
    ELSE IF cleanUpRemains THEN "cleanup"
    ELSE "resize"

\* ----------------------------------------------------- setMaxChildrenSize
\* Which exit of CompositeNode::setMaxChildrenSize a call takes.
setMaxPath(chs, maxSize, n, cleanUpRemains) ==
    IF n = 0 THEN "zero"
    ELSE IF n = Len(chs) THEN "same"
    ELSE IF n = INFINITE_CHILDREN THEN "infinite"
    ELSE IF n >= maxSize THEN "grow"
    ELSE IF Len(chs) < n THEN "fits"
    ELSE IF cleanUpRemains THEN "cleanup"
    ELSE "resize"

\* maxChildrenSize after the call.
setMaxCap(chs, maxSize, n, cleanUpRemains) ==
    IF setMaxPath(chs, maxSize, n, cleanUpRemains) \in {"infinite", "grow", "fits"}
    THEN n ELSE maxSize

\* children.resize(n)
resize(chs, n) == SubSeq(chs, 1, n)

\* The arguments tried.
SetMaxArgs == {INFINITE_CHILDREN} \cup (0..MaxChildren)

SetMaxChildrenSize ==
    /\ pc = "idle"
    /\ \E n \in SetMaxArgs : \E cleanUpRemains \in BOOLEAN :
       LET path == setMaxPath(children, maxChildrenSize, n, cleanUpRemains) IN
       /\ arg' = <<n, cleanUpRemains>>
       /\ argAfter' = <<>>
       /\ maxChildrenSize' = setMaxCap(children, maxChildrenSize, n, cleanUpRemains)
       /\ IF path = "cleanup"
          \* for (; i < childrenSize; i): i never advances.  The first pass
          \* deletes children.at(n); every later pass finds it null.
          THEN /\ children' = [children EXCEPT ![n + 1] = nullptr]
               /\ pc' = "setMaxLoop"
               /\ ret' = "none"
          ELSE IF path = "resize"
          \* control reaches the end of a non-void function: any value
          THEN /\ children' = resize(children, n)
               /\ pc' = pc
               /\ ret' \in BOOLEAN
          ELSE /\ children' = children
               /\ pc' = pc
               /\ ret' = (path # "zero")
    /\ runningNode' = StillOwned(children', runningNode)
    /\ lastOp' = "setMaxChildrenSize"
    /\ polled' = <<>>
    /\ prevRunning' = NO_RUNNING_CHILD
    /\ UNCHANGED <<kind, IGNORE_ERROR, runningChildIndex, needShuffle,
                   shuffleOrder>>
    /\ UNCHANGED decVars

Next ==
    \/ Update
    \/ AddChild
    \/ AddChildren
    \/ ClearChildren
    \/ SetMaxChildrenSize

Spec == Init /\ [][Next]_vars

\* ---------------------------------------------- a random composite, ticked
\* RandomSelector(children) / RandomSequence(children): the vector
\* constructor adds the ShuffleN nodes of the caller's vector in order.  The
\* shuffle of a vector of that size is one permutation, whichever the
\* library's default-seeded engine yields.
InitShuffle ==
    /\ kind \in {k \in Kinds : IsRandom(k)}
    /\ IGNORE_ERROR \in BOOLEAN
    /\ children = addAll(<<>>, BatchOf(<<>>, [i \in 1..ShuffleN |-> TRUE]))
    /\ maxChildrenSize = INFINITE_CHILDREN
    /\ runningChildIndex = NO_RUNNING_CHILD
    /\ needShuffle \in (IF kind = "RandomSequence" THEN BOOLEAN ELSE {TRUE})
    /\ shuffleOrder \in [{ShuffleN} -> Perms(ShuffleN)]
    /\ pc = "idle"
    /\ lastOp = "none"
    /\ ret = "none"
    /\ polled = <<>>
    /\ prevRunning = NO_RUNNING_CHILD
    /\ runningNode = nullptr
    /\ arg = <<>>
    /\ argAfter = <<>>
    /\ NoDecorator

\* The owner of the tree does nothing but tick it.
NextShuffle == Update

\* The tree is ticked again and again: update is called for as long as it
\* can be.
SpecShuffle == InitShuffle /\ [][NextShuffle]_vars /\ WF_vars(Update)

\* ============================================================ decorators
\* One poll of the wrapped child c, which returned st.
PollChild(c, st) == Poll(<<c>>, 0, st)

\* update returns st after the polls of log.
Returned(st, log) == [state |-> st, log |-> log, pc |-> "idle"]

\* this->child->update(delta) while child == nullptr is undefined behaviour:
\* the call faults, or it comes back with whatever status.
NullChildUpdate(log) ==
    {[state |-> "none", log |-> log, pc |-> "crashed"]}
      \cup {Returned(st, log) : st \in NODE_STATE}

\* DecoratorNode::addChild(child, overwrite): the child held afterwards.
decoratorAddChild(cur, c, overwrite) ==
    IF c = nullptr THEN nullptr
    ELSE IF overwrite THEN c
    ELSE cur

\* Inverter turning every status but SUCCESS into SUCCESS.
InverterUpdate_NoPassThrough(c) ==
    IF c = nullptr THEN {Returned("ERROR", <<>>)}
    ELSE {Returned(IF st = "SUCCESS" THEN "FAILURE" ELSE "SUCCESS",
                   <<PollChild(c, st)>>) : st \in NODE_STATE}

\* Inverter::update
InverterUpdate(c) ==
    IF c = nullptr THEN {Returned("ERROR", <<>>)}
    ELSE {Returned(IF st \in {"RUNNING", "ERROR"} THEN st
                   ELSE IF st = "SUCCESS" THEN "FAILURE" ELSE "SUCCESS",
                   <<PollChild(c, st)>>) : st \in NODE_STATE}

\* Succeeder handing back what its child returned.
SucceederUpdate_ReturnsChild(c) ==
    IF c = nullptr THEN {Returned("ERROR", <<>>)}
    ELSE {Returned(st, <<PollChild(c, st)>>) : st \in NODE_STATE}

\* Succeeder::update
SucceederUpdate(c) ==
    IF c = nullptr THEN {Returned("ERROR", <<>>)}
    ELSE {Returned("SUCCESS", <<PollChild(c, st)>>) : st \in NODE_STATE}

\* Failer::update
FailerUpdate(c) ==
    IF c = nullptr THEN {Returned("ERROR", <<>>)}
    ELSE {Returned("FAILURE", <<PollChild(c, st)>>) : st \in NODE_STATE}

\* The value an int that was never assigned may hold.
Indeterminate == (-2)..MaxRepeat

\* Repeat::repeat after Repeat::Repeat(repeat) and the constructor of the
\* subclass: 0 is stored for a negative argument, nothing is stored otherwise.
constructedRepeat(n) == IF n < 0 THEN {0} ELSE Indeterminate

\* The loop of Repeater::update going on after an ERROR of the child.
RECURSIVE RepeaterLoop_ContinuesOnError(_, _, _, _)
RepeaterLoop_ContinuesOnError(c, rep, i, log) ==
    IF i < rep
    THEN IF c = nullptr THEN NullChildUpdate(log)
         ELSE UNION {
                LET log2 == Append(log, PollChild(c, st)) IN
                IF st \in {"SUCCESS", "FAILURE", "ERROR"}
                THEN RepeaterLoop_ContinuesOnError(c, rep, i + 1, log2)
                ELSE {Returned(st, log2)}
              : st \in NODE_STATE }
    ELSE {Returned("SUCCESS", log)}

\* for (int i = 0; i < repeat; i++) of Repeater::update, from iteration i.
RECURSIVE RepeaterLoop(_, _, _, _)
RepeaterLoop(c, rep, i, log) ==
    IF i < rep
    THEN IF c = nullptr THEN NullChildUpdate(log)
         ELSE UNION {
                LET log2 == Append(log, PollChild(c, st)) IN
                IF st \in {"SUCCESS", "FAILURE"}
                THEN RepeaterLoop(c, rep, i + 1, log2)
                ELSE {Returned(st, log2)}
              : st \in NODE_STATE }
    ELSE {Returned("SUCCESS", log)}

\* Repeater::update
RepeaterUpdate(c, rep) ==
    IF rep = 0 THEN {Returned("ERROR", <<>>)}
    ELSE RepeaterLoop(c, rep, 0, <<>>)

\* do { state = child->update(delta); } while (state != desiredStatus);
\* a loop still going after MaxPolls polls never ends.
RECURSIVE RepeatUntilForever(_, _, _)
RepeatUntilForever(c, desired, log) ==
    IF c = nullptr THEN NullChildUpdate(log)
    ELSE UNION {
           LET log2 == Append(log, PollChild(c, st)) IN
           IF st = desired THEN {Returned("SUCCESS", log2)}
           ELSE IF Len(log2) >= MaxPolls
                THEN {[state |-> "none", log |-> log2, pc |-> "hung"]}
                ELSE RepeatUntilForever(c, desired, log2)
         : st \in NODE_STATE }

\* for (int i = 0; i < this->repeat; i++) of RepeatUntil::update.
RECURSIVE RepeatUntilLoop(_, _, _, _, _)
RepeatUntilLoop(c, rep, desired, i, log) ==
    IF i < rep
    THEN IF c = nullptr THEN NullChildUpdate(log)
         ELSE UNION {
                LET log2 == Append(log, PollChild(c, st)) IN
                IF st = desired THEN {Returned("SUCCESS", log2)}
                ELSE RepeatUntilLoop(c, rep, desired, i + 1, log2)
              : st \in NODE_STATE }
    ELSE {Returned("FAILURE", log)}

\* RepeatUntil::update
RepeatUntilUpdate(c, rep, desired) ==
    IF rep = 0 THEN {Returned("ERROR", <<>>)}
    ELSE IF rep = REPEAT_INFINITE THEN RepeatUntilForever(c, desired, <<>>)
    ELSE RepeatUntilLoop(c, rep, desired, 0, <<>>)

\* RepeatUntilFail / RepeatUntilSuccess pass their desiredStatus.
desiredStatus(d) == IF d = "RepeatUntilFail" THEN "FAILURE" ELSE "SUCCESS"

\* Limiter letting one execution too many through.
LimiterUpdate_OffByOne(c, lim, cnt) ==
    IF c = nullptr THEN {Returned("ERROR", <<>>)}
    ELSE IF cnt <= lim
    THEN {Returned(st, <<PollChild(c, st)>>) @@ [limitCount |-> cnt + 1]
            : st \in NODE_STATE}
    ELSE {Returned("FAILURE", <<>>)}

\* Limiter::update
LimiterUpdate(c, lim, cnt) ==
    IF c = nullptr THEN {Returned("ERROR", <<>>)}
    ELSE IF cnt < lim
    THEN {Returned(st, <<PollChild(c, st)>>) @@ [limitCount |-> cnt + 1]
            : st \in NODE_STATE}
    ELSE {Returned("FAILURE", <<>>)}

\* DelayTime starting a new delay when its child is still RUNNING.
DelayTimeUpdate_RedelayOnRunning(c, dur, el, once, fin, res, delta) ==
    IF c = nullptr THEN {Returned("ERROR", <<>>)}
    ELSE IF el >= 0 /\ el < dur
    THEN {Returned("RUNNING", <<>>) @@ [elapsedTime |-> el + delta]}
    ELSE IF fin = FALSE
    THEN {Returned(st, <<PollChild(c, st)>>)
            @@ [result |-> st,
                childUpdateFinished |-> (st # "RUNNING" /\ once),
                elapsedTime |-> IF st = "RUNNING" \/ ~once THEN 0 ELSE el]
            : st \in NODE_STATE}
    ELSE {Returned(res, <<>>)}

\* DelayTime never noting that its child has finished.
DelayTimeUpdate_ForgetsFinished(c, dur, el, once, fin, res, delta) ==
    IF c = nullptr THEN {Returned("ERROR", <<>>)}
    ELSE IF el >= 0 /\ el < dur
    THEN {Returned("RUNNING", <<>>) @@ [elapsedTime |-> el + delta]}
    ELSE IF fin = FALSE
    THEN {Returned(st, <<PollChild(c, st)>>)
            @@ [result |-> st,
                childUpdateFinished |-> FALSE,
                elapsedTime |-> IF st # "RUNNING" /\ ~once THEN 0 ELSE el]
            : st \in NODE_STATE}
    ELSE {Returned(res, <<>>)}

\* DelayTime keeping its elapsed time after the child finished.
DelayTimeUpdate_NoReset(c, dur, el, once, fin, res, delta) ==
    IF c = nullptr THEN {Returned("ERROR", <<>>)}
    ELSE IF el >= 0 /\ el < dur
    THEN {Returned("RUNNING", <<>>) @@ [elapsedTime |-> el + delta]}
    ELSE IF fin = FALSE
    THEN {Returned(st, <<PollChild(c, st)>>)
            @@ [result |-> st,
                childUpdateFinished |-> (st # "RUNNING" /\ once),
                elapsedTime |-> el]
            : st \in NODE_STATE}
    ELSE {Returned(res, <<>>)}

\* DelayTime::update
DelayTimeUpdate(c, dur, el, once, fin, res, delta) ==
    IF c = nullptr THEN {Returned("ERROR", <<>>)}
    ELSE IF el >= 0 /\ el < dur
    THEN {Returned("RUNNING", <<>>) @@ [elapsedTime |-> el + delta]}
    ELSE IF fin = FALSE
    THEN {Returned(st, <<PollChild(c, st)>>)
            @@ [result |-> st,
                childUpdateFinished |-> (st # "RUNNING" /\ once),
                elapsedTime |-> IF st # "RUNNING" /\ ~once THEN 0 ELSE el]
            : st \in NODE_STATE}
    ELSE {Returned(res, <<>>)}

\* TimeLimit failing on a RUNNING child but keeping its elapsed time.
TimeLimitUpdate_NoReset(c, dur, el, delta) ==
    IF c = nullptr THEN {Returned("ERROR", <<>>)}
    ELSE IF el >= dur
    THEN {IF st = "RUNNING"
          THEN Returned("FAILURE", <<PollChild(c, st)>>)
          ELSE Returned(st, <<PollChild(c, st)>>)
            : st \in NODE_STATE}
    ELSE {Returned(st, <<>>) @@ [elapsedTime |-> el + delta]
            : st \in NODE_STATE \cup {"garbage"}}

\* TimeLimit::update; its else branch ends without a return statement, so the
\* caller receives whatever the return register holds.
TimeLimitUpdate(c, dur, el, delta) ==
    IF c = nullptr THEN {Returned("ERROR", <<>>)}
    ELSE IF el >= dur
    THEN {IF st = "RUNNING"
          THEN Returned("FAILURE", <<PollChild(c, st)>>) @@ [elapsedTime |-> 0]
          ELSE Returned(st, <<PollChild(c, st)>>)
            : st \in NODE_STATE}
    ELSE {Returned(st, <<>>) @@ [elapsedTime |-> el + delta]
            : st \in NODE_STATE \cup {"garbage"}}

\* update(delta) of the decorator of class d, on its fields.
DecoratorOutcomes(d, delta) ==
    CASE d = "Inverter" -> InverterUpdate(decChild)
      [] d = "Succeeder" -> SucceederUpdate(decChild)
      [] d = "Failer" -> FailerUpdate(decChild)
      [] d = "Repeater" -> RepeaterUpdate(decChild, repeat)
      [] d \in {"RepeatUntilFail", "RepeatUntilSuccess"} ->
            RepeatUntilUpdate(decChild, repeat, desiredStatus(d))
      [] d = "Limiter" -> LimiterUpdate(decChild, limit, limitCount)
      [] d = "DelayTime" ->
            DelayTimeUpdate(decChild, duration, elapsedTime, delayOnce,
                            childUpdateFinished, result, delta)
      [] d = "TimeLimit" -> TimeLimitUpdate(decChild, duration, elapsedTime, delta)

\* The arguments the constructors are given.
RepeatArgs == REPEAT_INFINITE..MaxRepeat
Limits == (-1)..MaxLimit
Durations == 0..MaxDuration

\* A decorator as its constructor leaves it, with or without a child.
InitDecorator ==
    /\ decorator \in Decorators
    /\ decChild \in {nullptr, 1}
    /\ repeatArg \in (IF decorator \in {"Repeater", "RepeatUntilFail",
                                        "RepeatUntilSuccess"}
                      THEN RepeatArgs ELSE {0})
    /\ repeat \in (IF decorator \in {"Repeater", "RepeatUntilFail",
                                     "RepeatUntilSuccess"}
                   THEN constructedRepeat(repeatArg) ELSE {0})
    /\ limit \in (IF decorator = "Limiter" THEN Limits ELSE {0})
    /\ limitCount = 0
    /\ duration \in (IF decorator \in {"DelayTime", "TimeLimit"}
                     THEN Durations ELSE {0})
    /\ elapsedTime = 0
    /\ delayOnce \in (IF decorator = "DelayTime" THEN BOOLEAN ELSE {FALSE})
    /\ childUpdateFinished = FALSE
    /\ result = "none"
    /\ statusResult = "none"
    /\ kind = "Selector"
    /\ IGNORE_ERROR = FALSE
    /\ children = <<>>
    /\ maxChildrenSize = INFINITE_CHILDREN
    /\ runningChildIndex = NO_RUNNING_CHILD
    /\ needShuffle = TRUE
    /\ shuffleOrder = [n \in 2..MaxShuffled |-> [i \in 1..n |-> i]]
    /\ pc = "idle"
    /\ lastOp = "none"
    /\ ret = "none"
    /\ polled = <<>>
    /\ prevRunning = NO_RUNNING_CHILD
    /\ runningNode = nullptr
    /\ arg = <<>>
    /\ argAfter = <<>>

\* One call of update(delta) on the decorator.
DecoratorUpdate ==
    /\ pc = "idle"
    /\ \E delta \in DecoratorDeltas :
       \E o \in DecoratorOutcomes(decorator, delta) :
         LET r == o @@ [limitCount |-> limitCount,
                        elapsedTime |-> elapsedTime,
                        childUpdateFinished |-> childUpdateFinished,
                        result |-> result] IN
         /\ pc' = r.pc
         /\ lastOp' = "update"
         /\ ret' = r.state
         /\ polled' = r.log
         /\ limitCount' = r.limitCount
         /\ elapsedTime' = r.elapsedTime
         /\ childUpdateFinished' = r.childUpdateFinished
         /\ result' = r.result
         /\ arg' = <<delta>>
    /\ argAfter' = <<>>
    /\ UNCHANGED <<decorator, decChild, repeatArg, repeat, limit, duration,
                   delayOnce, statusResult>>
    /\ UNCHANGED <<kind, IGNORE_ERROR, children, maxChildrenSize,
                   runningChildIndex, needShuffle, shuffleOrder, prevRunning,
                   runningNode>>

\* One call of addChild(child, overwrite) on the decorator; the unique_ptr is
\* taken by value, so the caller's handle is empty afterwards.
DecoratorAddChild ==
    /\ pc = "idle"
    /\ \E c \in {nullptr, FreshNode(<<decChild>>)}, overwrite \in BOOLEAN :
         /\ decChild' = decoratorAddChild(decChild, c, overwrite)
         /\ arg' = <<c, overwrite>>
    /\ argAfter' = <<nullptr>>
    /\ lastOp' = "addChild"
    /\ ret' = "none"
    /\ polled' = <<>>
    /\ UNCHANGED <<decorator, repeatArg, repeat, limit, limitCount, duration,
                   elapsedTime, delayOnce, childUpdateFinished, result,
                   statusResult>>
    /\ UNCHANGED <<kind, IGNORE_ERROR, children, maxChildrenSize,
                   runningChildIndex, needShuffle, shuffleOrder, pc,
                   prevRunning, runningNode>>

\* One call of reset() on the decorator: Node::reset returns at once and no
\* decorator overrides it.
DecoratorReset ==
    /\ pc = "idle"
    /\ lastOp' = "reset"
    /\ ret' = "none"
    /\ polled' = <<>>
    /\ arg' = <<>>
    /\ argAfter' = <<>>
    /\ UNCHANGED decVars
    /\ UNCHANGED <<kind, IGNORE_ERROR, children, maxChildrenSize,
                   runningChildIndex, needShuffle, shuffleOrder, pc,
                   prevRunning, runningNode>>

NextDecorator ==
    \/ DecoratorUpdate
    \/ DecoratorAddChild
    \/ DecoratorReset

SpecDecorator == InitDecorator /\ [][NextDecorator]_vars

\* ======================================================= a node and reset
\* One call of reset() on the composite: Node::reset returns at once and no
\* composite overrides it.
Reset ==
    /\ pc = "idle"
    /\ lastOp' = "reset"
    /\ ret' = "none"
    /\ polled' = <<>>
    /\ arg' = <<>>
    /\ argAfter' = <<>>
    /\ UNCHANGED <<kind, IGNORE_ERROR, children, maxChildrenSize,
                   runningChildIndex, needShuffle, shuffleOrder, pc,
                   prevRunning, runningNode>>
    /\ UNCHANGED decVars

\* A node of either family as its constructor leaves it.
InitNode == Init \/ InitDecorator

\* The owner of the node gives it children, ticks it and resets it.
NextNode ==
    \/ decorator = "none" /\ Update
    \/ decorator = "none" /\ AddChild
    \/ decorator = "none" /\ Reset
    \/ decorator \in Decorators /\ DecoratorUpdate
    \/ decorator \in Decorators /\ DecoratorAddChild
    \/ decorator \in Decorators /\ DecoratorReset

SpecNode == InitNode /\ [][NextNode]_vars

\* ================================================ Locker (BTree revision)
\* enum class NODE_STATUS of the BTree revision.
NODE_STATUS == {"NONE", "SUCCESS", "FAILURE", "RUNNING", "INVALID"}

\* What a member the constructor never initialises may hold: any enumerator,
\* or a bit pattern that is none of them.
IndeterminateStatus == NODE_STATUS \cup {"garbage"}

\* child->update(delta) of the Locker: the child answers with any status.
\* A Locker constructed with nullptr has a child pointer that was never
\* set, so the call is undefined: it faults, or comes back with any status.
LockerPoll(c) ==
    IF c = nullptr
    THEN {[st |-> "none", log |-> <<>>, pc |-> "crashed"]}
           \cup {[st |-> st, log |-> <<>>, pc |-> "idle"] : st \in NODE_STATUS}
    ELSE {[st |-> st, log |-> <<PollChild(c, st)>>, pc |-> "idle"]
            : st \in NODE_STATUS}

\* Locker::update after statusResult has been settled for this call.
LockerCount(status, log, dur, el, delta) ==
    IF status \in {"RUNNING", "INVALID"}
    THEN [state |-> status, log |-> log, pc |-> "idle",
          statusResult |-> status, elapsedTime |-> el]
    ELSE IF el + delta < dur
    THEN [state |-> "RUNNING", log |-> log, pc |-> "idle",
          statusResult |-> status, elapsedTime |-> el + delta]
    ELSE [state |-> status, log |-> log, pc |-> "idle",
          statusResult |-> "NONE", elapsedTime |-> 0]

\* Locker::update(delta): the child is polled while statusResult is NONE or
\* RUNNING; a SUCCESS or FAILURE is held back until elapsedTime reaches
\* duration, then returned, and the Locker resets itself.
LockerUpdate(c, dur, el, status, delta) ==
    IF status \in {"NONE", "RUNNING"}
    THEN {IF p.pc = "crashed"
          THEN [state |-> "none", log |-> p.log, pc |-> "crashed",
                statusResult |-> status, elapsedTime |-> el]
          ELSE LockerCount(p.st, p.log, dur, el, delta)
            : p \in LockerPoll(c)}
    ELSE {LockerCount(status, <<>>, dur, el, delta)}

\* DecoratorNode::addChild(child) of the BTree revision.
lockerAddChild(cur, c) == IF c # nullptr THEN c ELSE cur

\* Locker(child, duration): elapsedTime(0) and duration(duration) are
\* initialised, statusResult is not.
InitLocker ==
    /\ decorator = "Locker"
    /\ decChild \in {nullptr, 1}
    /\ repeatArg = 0
    /\ repeat = 0
    /\ limit = 0
    /\ limitCount = 0
    /\ duration \in Durations
    /\ elapsedTime = 0
    /\ delayOnce = FALSE
    /\ childUpdateFinished = FALSE
    /\ result = "none"
    /\ statusResult \in IndeterminateStatus
    /\ kind = "Selector"
    /\ IGNORE_ERROR = FALSE
    /\ children = <<>>
    /\ maxChildrenSize = INFINITE_CHILDREN
    /\ runningChildIndex = NO_RUNNING_CHILD
    /\ needShuffle = TRUE
    /\ shuffleOrder = [n \in 2..MaxShuffled |-> [i \in 1..n |-> i]]
    /\ pc = "idle"
    /\ lastOp = "none"
    /\ ret = "none"
    /\ polled = <<>>
    /\ prevRunning = NO_RUNNING_CHILD
    /\ runningNode = nullptr
    /\ arg = <<>>
    /\ argAfter = <<>>

\* One call of update(delta) on the Locker.
LockerUpdateCall ==
    /\ pc = "idle"
    /\ \E delta \in DecoratorDeltas :
       \E o \in LockerUpdate(decChild, duration, elapsedTime, statusResult,
                             delta) :
         /\ pc' = o.pc
         /\ ret' = o.state
         /\ polled' = o.log
         /\ statusResult' = o.statusResult
         /\ elapsedTime' = o.elapsedTime
         /\ arg' = <<delta>>
    /\ lastOp' = "update"
    /\ argAfter' = <<>>
    /\ UNCHANGED <<decorator, decChild, repeatArg, repeat, limit, limitCount,
                   duration, delayOnce, childUpdateFinished, result>>
    /\ UNCHANGED <<kind, IGNORE_ERROR, children, maxChildrenSize,
                   runningChildIndex, needShuffle, shuffleOrder, prevRunning,
                   runningNode>>

\* One call of addChild(child) on the Locker.
LockerAddChild ==
    /\ pc = "idle"
    /\ \E c \in {nullptr, FreshNode(<<decChild>>)} :
         /\ decChild' = lockerAddChild(decChild, c)
         /\ arg' = <<c>>
    /\ argAfter' = <<>>
    /\ lastOp' = "addChild"
    /\ ret' = "none"
    /\ polled' = <<>>
    /\ UNCHANGED <<decorator, repeatArg, repeat, limit, limitCount, duration,
                   elapsedTime, delayOnce, childUpdateFinished, result,
                   statusResult>>
    /\ UNCHANGED <<kind, IGNORE_ERROR, children, maxChildrenSize,
                   runningChildIndex, needShuffle, shuffleOrder, pc,
                   prevRunning, runningNode>>

\* One call of Locker::reset(): statusResult = NONE, elapsedTime = 0.
LockerReset ==
    /\ pc = "idle"
    /\ statusResult' = "NONE"
    /\ elapsedTime' = 0
    /\ lastOp' = "reset"
    /\ ret' = "none"
    /\ polled' = <<>>
    /\ arg' = <<>>
    /\ argAfter' = <<>>
    /\ UNCHANGED <<decorator, decChild, repeatArg, repeat, limit, limitCount,
                   duration, delayOnce, childUpdateFinished, result>>
    /\ UNCHANGED <<kind, IGNORE_ERROR, children, maxChildrenSize,
                   runningChildIndex, needShuffle, shuffleOrder, pc,
                   prevRunning, runningNode>>

NextLocker ==
    \/ LockerUpdateCall
    \/ LockerAddChild
    \/ LockerReset

SpecLocker == InitLocker /\ [][NextLocker]_vars

\* ================================================================ claims
\* The update whose outcome the state records.
Updated == lastOp = "update"

\* The last update began with a remembered running child in range, which it
\* therefore polled first.
Resumed ==
    /\ Updated
    /\ isRunningChildIndexValid(children, prevRunning)
    /\ polled # <<>>
    /\ polled[1].index = prevRunning

\* The statuses the polled children returned.
StatesOf(log) == {log[m].state : m \in 1..Len(log)}

\* The log polls indices first, first + 1, ... in that order.
InOrderFrom(log, from, first) ==
    \A m \in from..Len(log) : log[m].index = first + (m - from)

\* C1: update of a composite (any of the four classes) that has no children
\* returns ERROR, and polls nothing.
C1_ZeroChildrenError ==
    (Updated /\ children = <<>>) => (ret = "ERROR" /\ polled = <<>>)

C1_Witness ==
    /\ Updated
    /\ children = <<>>
    /\ kind = "RandomSequence"
    /\ runningChildIndex # NO_RUNNING_CHILD
    /\ ret = "ERROR"

\* C2: a Selector with children and no remembered running child, whose
\* polled children return only SUCCESS or FAILURE, polls them in stored order
\* from index 0; it returns SUCCESS at the first SUCCESS and polls nothing
\* after it; if all fail it has polled every child once and returns FAILURE.
C2_SelectorFirstSuccess ==
    (/\ Updated
     /\ IsSelector(kind)
     /\ children # <<>>
     /\ prevRunning = NO_RUNNING_CHILD
     /\ StatesOf(polled) \subseteq {"SUCCESS", "FAILURE"})
    => /\ polled # <<>>
       /\ InOrderFrom(polled, 1, 0)
       /\ \A m \in 1..Len(polled) :
             polled[m].state = "SUCCESS" => (m = Len(polled) /\ ret = "SUCCESS")
       /\ ("SUCCESS" \notin StatesOf(polled))
             => (Len(polled) = Len(children) /\ ret = "FAILURE")

C2_Witness ==
    /\ Updated
    /\ kind = "Selector"
    /\ Len(children) = 3
    /\ prevRunning = NO_RUNNING_CHILD
    /\ Len(polled) = 2
    /\ polled[1].state = "FAILURE"
    /\ polled[2].state = "SUCCESS"
    /\ ret = "SUCCESS"

\* C3: a Sequence with children and no remembered running child, whose
\* polled children return only SUCCESS or FAILURE, polls them in stored order
\* from index 0; it returns FAILURE at the first FAILURE and polls nothing
\* after it; if all succeed it has polled every child once and returns SUCCESS.
C3_SequenceFirstFailure ==
    (/\ Updated
     /\ IsSequence(kind)
     /\ children # <<>>
     /\ prevRunning = NO_RUNNING_CHILD
     /\ StatesOf(polled) \subseteq {"SUCCESS", "FAILURE"})
    => /\ polled # <<>>
       /\ InOrderFrom(polled, 1, 0)
       /\ \A m \in 1..Len(polled) :
             polled[m].state = "FAILURE" => (m = Len(polled) /\ ret = "FAILURE")
       /\ ("FAILURE" \notin StatesOf(polled))
             => (Len(polled) = Len(children) /\ ret = "SUCCESS")

C3_Witness ==
    /\ Updated
    /\ kind = "Sequence"
    /\ Len(children) = 3
    /\ prevRunning = NO_RUNNING_CHILD
    /\ Len(polled) = 2
    /\ polled[1].state = "SUCCESS"
    /\ polled[2].state = "FAILURE"
    /\ ret = "FAILURE"

\* C4: an update that starts with a running child remembered at an in-range
\* index j polls child j first; if child j returns RUNNING again, no other
\* child is polled, the update returns RUNNING and the running index stays j.
C4_ResumeStillRunning ==
    (Updated /\ children # <<>> /\ isRunningChildIndexValid(children, prevRunning))
    => /\ polled # <<>>
       /\ polled[1].index = prevRunning
       /\ polled[1].node = At(children, prevRunning)
       /\ polled[1].state = "RUNNING"
             => /\ Len(polled) = 1
                /\ ret = "RUNNING"
                /\ runningChildIndex = prevRunning

C4_Witness ==
    /\ Resumed
    /\ kind = "Selector"
    /\ Len(children) = 3
    /\ prevRunning = 1
    /\ polled[1].state = "RUNNING"
    /\ runningChildIndex = 1

\* C5: when a Sequence resumes its running child j and the child returns
\* SUCCESS, the update goes on from index j + 1: its polls and its result are
\* those of iterating children j + 1 .. with continue condition SUCCESS, so no
\* child at an index <= j is polled after the resume poll.
C5_SequenceResumeSuccess ==
    (Resumed /\ IsSequence(kind) /\ polled[1].state = "SUCCESS")
    => /\ InOrderFrom(polled, 2, prevRunning + 1)
       /\ \E r \in updateChildren(children, prevRunning + 1, "SUCCESS",
                                  IGNORE_ERROR, NO_RUNNING_CHILD, <<polled[1]>>) :
             r.log = polled /\ r.state = ret

\* C6: when a Selector resumes its running child j and the child returns
\* FAILURE, iteration goes on in the same update from index j + 1; the running
\* index is left cleared unless a later child returns RUNNING, whose index it
\* then becomes; if every child from j + 1 on fails the Selector returns
\* FAILURE.
C6_SelectorResumeFailure ==
    (Resumed /\ IsSelector(kind) /\ polled[1].state = "FAILURE")
    => /\ InOrderFrom(polled, 2, prevRunning + 1)
       /\ IF polled[Len(polled)].state = "RUNNING"
          THEN runningChildIndex = polled[Len(polled)].index /\ ret = "RUNNING"
          ELSE runningChildIndex = NO_RUNNING_CHILD
       /\ (StatesOf(polled) = {"FAILURE"})
             => (ret = "FAILURE" /\ Len(polled) = Len(children) - prevRunning)

C6_Witness ==
    /\ Resumed
    /\ kind = "Selector"
    /\ Len(children) = 3
    /\ prevRunning = 0
    /\ Len(polled) = 3
    /\ polled[1].state = "FAILURE"
    /\ polled[2].state = "FAILURE"
    /\ polled[3].state = "RUNNING"
    /\ runningChildIndex = 2

\* C7: with IGNORE_ERROR false, a Selector whose remembered running child
\* returns ERROR on resume returns ERROR and polls no further child.
C7_SelectorResumeError ==
    (Resumed /\ IsSelector(kind) /\ ~IGNORE_ERROR /\ polled[1].state = "ERROR")
    => (ret = "ERROR" /\ Len(polled) = 1)

\* C8: in an update that does not resume a running child, with IGNORE_ERROR
\* false a child's ERROR ends the update with ERROR and no later child is
\* polled; with IGNORE_ERROR true an ERROR is passed over like the continue
\* condition, so a Selector whose children all return FAILURE or ERROR returns
\* FAILURE and a Sequence whose children all return SUCCESS or ERROR returns
\* SUCCESS, each after polling every child.
C8_ErrorInIteration ==
    (Updated /\ children # <<>> /\ ~isRunningChildIndexValid(children, prevRunning))
    => /\ ~IGNORE_ERROR =>
            \A m \in 1..Len(polled) :
                polled[m].state = "ERROR" => (m = Len(polled) /\ ret = "ERROR")
       /\ (IGNORE_ERROR /\ IsSelector(kind)
             /\ StatesOf(polled) \subseteq {"FAILURE", "ERROR"})
            => (ret = "FAILURE" /\ Len(polled) = Len(children))
       /\ (IGNORE_ERROR /\ IsSequence(kind)
             /\ StatesOf(polled) \subseteq {"SUCCESS", "ERROR"})
            => (ret = "SUCCESS" /\ Len(polled) = Len(children))

C8_Witness ==
    /\ Updated
    /\ kind = "Selector"
    /\ ~IGNORE_ERROR
    /\ Len(children) = 3
    /\ prevRunning = NO_RUNNING_CHILD
    /\ Len(polled) = 2
    /\ polled[1].state = "FAILURE"
    /\ polled[2].state = "ERROR"
    /\ ret = "ERROR"

\* What an ERROR counts as under IGNORE_ERROR in a composite of class k.
ErrorAs(k, st) ==
    IF st # "ERROR" THEN st
    ELSE IF IsSelector(k) THEN "FAILURE" ELSE "SUCCESS"

ErrorsReplaced(k, log) ==
    [m \in 1..Len(log) |-> [log[m] EXCEPT !.state = ErrorAs(k, log[m].state)]]

\* C9: with IGNORE_ERROR true, an update polls the same children and returns
\* the same status as the update would if every ERROR a child returned (that
\* of the resumed running child included) were SUCCESS in a Sequence and
\* FAILURE in a Selector.
C9_ErrorAsContinue ==
    (Updated /\ IGNORE_ERROR /\ children # <<>>)
    => \E r \in KindUpdate(kind, children, prevRunning, IGNORE_ERROR) :
          /\ r.log = ErrorsReplaced(kind, polled)
          /\ r.state = ret

\* C10: whenever a call has returned, the running-child index is unset or is
\* a valid index into the children vector at which the child that last
\* returned RUNNING sits.
C10_RunningIndexValid ==
    pc = "idle" =>
        \/ runningChildIndex = NO_RUNNING_CHILD
        \/ /\ runningChildIndex < Len(children)
           /\ At(children, runningChildIndex) = runningNode

\* The non-null entries of a caller's vector, in order.
NonNull(batch) == SelectSeq(batch, LAMBDA n : n # nullptr)

\* C11: addChild on a composite whose child count equals its finite cap
\* returns false and leaves the children unchanged; addChild of a non-null
\* node below the cap returns true.
C11_AddChildRespectsCap ==
    [][ lastOp' = "addChild" =>
          /\ (maxChildrenSize # INFINITE_CHILDREN
                /\ Len(children) = maxChildrenSize)
               => (ret' = FALSE /\ children' = children)
          /\ (arg'[1] # nullptr
                /\ maxChildrenSize # INFINITE_CHILDREN
                /\ Len(children) < maxChildrenSize)
               => ret' = TRUE ]_vars

\* C12: addChildren is all or nothing.  An empty batch, or one that would
\* take the count over a finite cap, is rejected: false, children unchanged,
\* the caller's vector untouched.  Otherwise: true, the non-null nodes are
\* appended in batch order, every entry of the caller's vector is left null.
C12_AddChildrenAtomic ==
    [][ lastOp' = "addChildren" =>
          IF \/ arg' = <<>>
             \/ /\ maxChildrenSize # INFINITE_CHILDREN
                /\ Len(children) + Len(arg') > maxChildrenSize
          THEN /\ ret' = FALSE
               /\ children' = children
               /\ argAfter' = arg'
          ELSE /\ ret' = TRUE
               /\ children' = children \o NonNull(arg')
               /\ Len(argAfter') = Len(arg')
               /\ \A i \in 1..Len(argAfter') : argAfter'[i] = nullptr ]_vars

C12_Witness ==
    /\ lastOp = "addChildren"
    /\ ret = FALSE
    /\ Len(arg) = 2
    /\ arg[1] # nullptr
    /\ argAfter = arg
    /\ maxChildrenSize = 2
    /\ Len(children) = 1

\* C13: addChild of a non-null node appends it as the last child, changes no
\* other child, empties the caller's handle and returns true; addChild of
\* nullptr returns false and changes nothing.  No node is held twice.
C13_AddChildAppends ==
    /\ [][ lastOp' = "addChild" =>
             IF arg'[1] # nullptr
             THEN /\ children' = Append(children, arg'[1])
                  /\ ret' = TRUE
                  /\ argAfter' = <<nullptr>>
             ELSE /\ children' = children
                  /\ ret' = FALSE
                  /\ UNCHANGED <<maxChildrenSize, runningChildIndex>> ]_vars
    /\ [](pc = "idle" =>
             \A i, j \in 1..Len(children) :
                 children[i] # nullptr /\ (children[i] = children[j] => i = j))

C13_Witness ==
    /\ lastOp = "addChild"
    /\ ret = TRUE
    /\ children = <<1, 2, 3>>
    /\ arg = <<3>>
    /\ argAfter = <<nullptr>>

\* C14: setMaxChildrenSize(0, _) returns false and leaves the cap and the
\* children unchanged; the cap is never 0.
C14_ZeroCapRejected ==
    /\ [][ (lastOp' = "setMaxChildrenSize" /\ arg'[1] = 0) =>
             /\ ret' = FALSE
             /\ maxChildrenSize' = maxChildrenSize
             /\ children' = children
             /\ pc' = "idle" ]_vars
    /\ [](maxChildrenSize # 0)

C14_Witness ==
    /\ lastOp = "setMaxChildrenSize"
    /\ arg[1] = 0
    /\ ret = FALSE
    /\ Len(children) = 2
    /\ maxChildrenSize = 2

\* C15: setMaxChildrenSize(n, cleanup) with finite n > 0 below the child
\* count leaves exactly the first n children, in order, whatever cleanup is.
C15_Truncates ==
    [][ (/\ lastOp' = "setMaxChildrenSize"
         /\ arg'[1] > 0
         /\ arg'[1] < Len(children))
        => children' = SubSeq(children, 1, arg'[1]) ]_vars

\* C16: while a RandomSelector or RandomSequence remembers a running child
\* (its previous update returned RUNNING), the next update does not shuffle:
\* the children order is the same after it as before it, and the child it
\* resumes (the first and only one it polls before deciding) is the child at
\* the remembered index, the one whose poll returned RUNNING.
C16_NoShuffleWhileRunning ==
    [][ (IsRandom(kind) /\ lastOp = "update" /\ ret = "RUNNING"
           /\ lastOp' = "update") =>
          /\ children' = children
          /\ runningChildIndex \in 0..(Len(children) - 1)
          /\ polled' # <<>>
          /\ polled'[1].index = runningChildIndex
          /\ polled'[1].node = At(children, runningChildIndex)
          /\ polled'[1].node = runningNode ]_vars

\* A random composite whose two-element shuffle swaps, resuming the running
\* child at index 1 for the second tick in a row.
C16_Witness ==
    /\ IsRandom(kind) /\ Resumed /\ Len(children) = 2
    /\ shuffleOrder[2] = <<2, 1>>
    /\ prevRunning = 1 /\ runningChildIndex = 1 /\ ret = "RUNNING"
    /\ polled = <<[index |-> 1, node |-> children[2], state |-> "RUNNING"]>>

\* C17: a RandomSelector or RandomSequence with N > 1 children none of which
\* is ever RUNNING comes, over repeated updates, to every permutation of its
\* children: each order of the N children eventually is the children order.
C17_EveryOrderReached ==
    \A p \in Perms(ShuffleN) :
        <>(ret = "RUNNING") \/ <>(children = [i \in 1..ShuffleN |-> p[i]])

\* C18: a decorator of any class that has no child returns ERROR from every
\* update, whatever its other fields hold, without polling or dereferencing
\* the absent child (the call returns normally).
C18_NoChildError ==
    [][ (decorator \in Decorators /\ decChild = nullptr /\ lastOp' = "update")
          => (ret' = "ERROR" /\ polled' = <<>> /\ pc' = "idle") ]_vars

\* C19: an Inverter with a child polls it exactly once per update and returns
\* FAILURE for its SUCCESS, SUCCESS for its FAILURE, and its RUNNING or ERROR
\* unchanged.
C19_InverterInverts ==
    [][ (decorator = "Inverter" /\ decChild # nullptr /\ lastOp' = "update") =>
          /\ Len(polled') = 1
          /\ polled'[1].node = decChild
          /\ ret' = (CASE polled'[1].state = "SUCCESS" -> "FAILURE"
                       [] polled'[1].state = "FAILURE" -> "SUCCESS"
                       [] OTHER -> polled'[1].state)
          /\ pc' = "idle" ]_vars

\* An Inverter handed back the ERROR of its one poll of the child.
C19_Witness ==
    /\ decorator = "Inverter" /\ decChild # nullptr /\ lastOp = "update"
    /\ polled = <<PollChild(decChild, "ERROR")>> /\ ret = "ERROR"

\* C20: a Succeeder (a Failer) with a child polls it exactly once per update
\* and returns SUCCESS (FAILURE) whatever the child returned, RUNNING and
\* ERROR included.
C20_SucceederFailerConstant ==
    [][ (decorator \in {"Succeeder", "Failer"} /\ decChild # nullptr
           /\ lastOp' = "update") =>
          /\ Len(polled') = 1
          /\ polled'[1].node = decChild
          /\ ret' = (IF decorator = "Succeeder" THEN "SUCCESS" ELSE "FAILURE")
          /\ pc' = "idle" ]_vars

\* A Succeeder returned SUCCESS although its child, polled once, is RUNNING.
C20_Witness ==
    /\ decorator = "Succeeder" /\ decChild # nullptr /\ lastOp = "update"
    /\ polled = <<PollChild(decChild, "RUNNING")>> /\ ret = "SUCCESS"

\* The statuses of the polls of an update, in order.
StatusSeq(log) == [m \in 1..Len(log) |-> log[m].state]

\* C21: a Repeater constructed with count n >= 1 whose child returns only
\* SUCCESS or FAILURE polls the child exactly n times in one update and
\* returns SUCCESS, in the first update and in every later one.
C21_RepeaterPollsN ==
    [][ (/\ decorator = "Repeater" /\ repeatArg >= 1 /\ decChild # nullptr
         /\ lastOp' = "update"
         /\ StatesOf(polled') \subseteq {"SUCCESS", "FAILURE"})
          => (/\ pc' = "idle"
              /\ Len(polled') = repeatArg
              /\ ret' = "SUCCESS") ]_vars

\* C22: a Repeater, RepeatUntilFail or RepeatUntilSuccess constructed with
\* repeat count 0 returns ERROR from every update and polls no child.
C22_RepeatZeroError ==
    [][ (/\ decorator \in {"Repeater", "RepeatUntilFail", "RepeatUntilSuccess"}
         /\ repeatArg = 0
         /\ lastOp' = "update")
          => (pc' = "idle" /\ ret' = "ERROR" /\ polled' = <<>>) ]_vars

\* C23: in an update of a Repeater the first poll of the child that returns
\* RUNNING or ERROR is the last poll of that update, and its status is what
\* the update returns.
C23_RepeaterStopsOnRunningError ==
    [][ (decorator = "Repeater" /\ lastOp' = "update") =>
          \A i \in 1..Len(polled') :
             polled'[i].state \in {"RUNNING", "ERROR"} =>
                (i = Len(polled') /\ ret' = polled'[i].state /\ pc' = "idle")
      ]_vars

\* A Repeater whose child succeeded once and then returned ERROR.
C23_Witness ==
    /\ decorator = "Repeater" /\ lastOp = "update" /\ decChild # nullptr
    /\ StatusSeq(polled) = <<"SUCCESS", "ERROR">> /\ ret = "ERROR"

\* C24: RepeatUntilFail(n) / RepeatUntilSuccess(n) with a child and a finite
\* n >= 1 poll the child, within one update, until it first returns the
\* target status: if it does so at poll i <= n the update returns SUCCESS
\* after exactly i polls, otherwise FAILURE after exactly n polls.
C24_RepeatUntilFinite ==
    [][ (/\ decorator \in {"RepeatUntilFail", "RepeatUntilSuccess"}
         /\ repeatArg >= 1 /\ decChild # nullptr
         /\ lastOp' = "update") =>
          LET target == desiredStatus(decorator)
              k == Len(polled') IN
          /\ pc' = "idle"
          /\ k \in 1..repeatArg
          /\ \A i \in 1..(k - 1) : polled'[i].state # target
          /\ IF polled'[k].state = target
             THEN ret' = "SUCCESS"
             ELSE k = repeatArg /\ ret' = "FAILURE" ]_vars

\* C25: RepeatUntilFail / RepeatUntilSuccess constructed with REPEAT_INFINITE
\* and a child repeat without bound: an update polls the child until it first
\* returns the target status, on its k-th poll for whatever k >= 1, and then
\* returns SUCCESS after exactly those k polls.
C25_RepeatUntilInfinite ==
    [][ (/\ decorator \in {"RepeatUntilFail", "RepeatUntilSuccess"}
         /\ repeatArg = REPEAT_INFINITE /\ decChild # nullptr
         /\ lastOp' = "update" /\ pc' = "idle") =>
          LET target == desiredStatus(decorator)
              k == Len(polled') IN
          /\ k >= 1
          /\ \A i \in 1..(k - 1) : polled'[i].state # target
          /\ polled'[k].state = target
          /\ ret' = "SUCCESS" ]_vars

\* C26: a Limiter(limit) with a child polls the child once, and returns what
\* it returned, in each of its first limit updates; every later update
\* returns FAILURE without a poll.  The executions used up never decrease and
\* never pass limit (a limit below 0 allows none), so once exhausted the
\* Limiter stays exhausted, through update, reset and addChild alike.
C26_LimiterExhausts ==
    /\ [][ (decorator = "Limiter" /\ decChild # nullptr /\ lastOp' = "update") =>
             IF limitCount < limit
             THEN /\ Len(polled') = 1
                  /\ polled'[1].node = decChild
                  /\ ret' = polled'[1].state
                  /\ limitCount' = limitCount + 1
             ELSE /\ polled' = <<>>
                  /\ ret' = "FAILURE"
                  /\ limitCount' = limitCount ]_vars
    /\ [][ decorator = "Limiter" =>
             /\ limitCount' >= limitCount
             /\ limitCount' - limitCount = (IF lastOp' = "update" THEN Len(polled') ELSE 0)
             /\ limit' = limit ]_vars
    /\ [](decorator = "Limiter" =>
             limitCount \in 0..(IF limit > 0 THEN limit ELSE 0))

\* A Limiter(2) refusing after its two executions.
C26_Witness ==
    /\ decorator = "Limiter" /\ decChild # nullptr /\ limit = 2 /\ limitCount = 2
    /\ lastOp = "update" /\ ret = "FAILURE" /\ polled = <<>>

\* C27: a DelayTime(D > 0, once = false) with a child, updated with positive
\* deltas: an update that starts with elapsed time below D adds delta, returns
\* RUNNING and polls nothing; an update that starts with elapsed time at or
\* above D polls the child once and returns its status, and a terminal status
\* puts the elapsed time back to 0, so that the next updates delay again.
C27_DelayTimeCycle ==
    /\ [][ (/\ decorator = "DelayTime" /\ duration > 0 /\ ~delayOnce
            /\ decChild # nullptr
            /\ lastOp' = "update" /\ arg'[1] > 0) =>
             IF elapsedTime < duration
             THEN /\ ret' = "RUNNING"
                  /\ polled' = <<>>
                  /\ elapsedTime' = elapsedTime + arg'[1]
             ELSE /\ Len(polled') = 1
                  /\ polled'[1].node = decChild
                  /\ ret' = polled'[1].state
                  /\ elapsedTime' = (IF ret' = "RUNNING" THEN elapsedTime ELSE 0)
         ]_vars
    /\ [](decorator = "DelayTime" /\ ~delayOnce =>
             elapsedTime >= 0 /\ ~childUpdateFinished)

\* A DelayTime(2, false) that has delayed, handed back its child's SUCCESS
\* and is back at elapsed time 0.
C27_Witness ==
    /\ decorator = "DelayTime" /\ duration = 2 /\ ~delayOnce /\ decChild # nullptr
    /\ lastOp = "update" /\ arg = <<1>>
    /\ StatusSeq(polled) = <<"SUCCESS">> /\ ret = "SUCCESS" /\ elapsedTime = 0

\* C28: once a DelayTime has finished delaying and its child returns RUNNING,
\* the DelayTime returns RUNNING with its elapsed time untouched, and the
\* update that follows polls the child again at once, with no new delay.
C28_DelayTimeRepolls ==
    /\ [][ (decorator = "DelayTime" /\ lastOp' = "update" /\ polled' # <<>>) =>
             /\ Len(polled') = 1
             /\ ret' = polled'[1].state
             /\ (ret' = "RUNNING" =>
                   /\ elapsedTime' = elapsedTime
                   /\ ~(elapsedTime >= 0 /\ elapsedTime < duration)) ]_vars
    /\ [][ (/\ decorator = "DelayTime" /\ decChild # nullptr
            /\ lastOp = "update" /\ polled # <<>> /\ ret = "RUNNING"
            /\ lastOp' = "update") =>
             /\ Len(polled') = 1
             /\ polled'[1].node = decChild
             /\ ret' = polled'[1].state ]_vars

\* A DelayTime(2, false) past its delay whose child, polled, is RUNNING.
C28_Witness ==
    /\ decorator = "DelayTime" /\ duration = 2 /\ ~delayOnce /\ decChild # nullptr
    /\ lastOp = "update" /\ StatusSeq(polled) = <<"RUNNING">>
    /\ ret = "RUNNING" /\ elapsedTime >= duration

\* C29: a DelayTime with once = true whose child has returned a terminal
\* status (SUCCESS, FAILURE or ERROR) keeps that status: every later update,
\* whatever its delta, returns it and does not poll the child.
C29_DelayOnceParks ==
    /\ [][ (/\ decorator = "DelayTime" /\ delayOnce /\ lastOp' = "update"
            /\ polled' # <<>> /\ polled'[1].state # "RUNNING") =>
             /\ childUpdateFinished'
             /\ result' = polled'[1].state
             /\ ret' = result' ]_vars
    /\ [][ (/\ decorator = "DelayTime" /\ delayOnce /\ childUpdateFinished
            /\ decChild # nullptr /\ lastOp' = "update") =>
             /\ polled' = <<>>
             /\ ret' = result
             /\ result' = result
             /\ childUpdateFinished' ]_vars
    /\ [][ (decorator = "DelayTime" /\ delayOnce /\ childUpdateFinished) =>
             (childUpdateFinished' /\ result' = result) ]_vars
    /\ [](decorator = "DelayTime" /\ childUpdateFinished =>
             delayOnce /\ result \in {"SUCCESS", "FAILURE", "ERROR"})

\* A DelayTime(1, true) answering with its child's FAILURE of an earlier
\* update, without a poll.
C29_Witness ==
    /\ decorator = "DelayTime" /\ duration = 1 /\ delayOnce /\ decChild # nullptr
    /\ childUpdateFinished /\ result = "FAILURE"
    /\ lastOp = "update" /\ polled = <<>> /\ ret = "FAILURE"

\* C30: a TimeLimit(duration) with a child polls the child in every update
\* that starts with elapsed time below duration; when that poll returns a
\* terminal status the update returns it and the elapsed time is back at 0.
C30_TimeLimitPollsBelow ==
    [][ (/\ decorator = "TimeLimit" /\ decChild # nullptr
         /\ elapsedTime < duration
         /\ lastOp' = "update") =>
          /\ Len(polled') = 1
          /\ polled'[1].node = decChild
          /\ (polled'[1].state # "RUNNING" =>
                (ret' = polled'[1].state /\ elapsedTime' = 0)) ]_vars

\* C31: a TimeLimit(duration) with a child, updated when its elapsed time has
\* reached or passed duration, polls the child, and if the child is still
\* RUNNING the update returns FAILURE and puts the elapsed time back to 0.
C31_TimeLimitExpires ==
    [][ (/\ decorator = "TimeLimit" /\ decChild # nullptr
         /\ elapsedTime >= duration
         /\ lastOp' = "update") =>
          /\ Len(polled') = 1
          /\ polled'[1].node = decChild
          /\ (polled'[1].state = "RUNNING" =>
                (ret' = "FAILURE" /\ elapsedTime' = 0)) ]_vars

\* A TimeLimit(2) that ran out on a RUNNING child: FAILURE, and time 0 again.
C31_Witness ==
    /\ decorator = "TimeLimit" /\ duration = 2 /\ decChild # nullptr
    /\ lastOp = "update" /\ StatusSeq(polled) = <<"RUNNING">>
    /\ ret = "FAILURE" /\ elapsedTime = 0

\* C32: whatever path a call of update takes to its end, on whatever node in
\* whatever state, the value it hands back is one of SUCCESS, FAILURE,
\* RUNNING, ERROR.
C32_UpdateReturnsStatus ==
    (lastOp = "update" /\ pc = "idle") => ret \in NODE_STATE

\* C33: reset() clears what a node remembers between updates.  A composite
\* has no running child after it, a DelayTime or TimeLimit has elapsed time 0
\* and no finished child; and the update that follows a reset of a composite
\* starts at index 0, as the first update of a new node does.
C33_ResetClears ==
    /\ [][ lastOp' = "reset" =>
             IF decorator = "none"
             THEN runningChildIndex' = NO_RUNNING_CHILD
             ELSE decorator \in {"DelayTime", "TimeLimit"} =>
                     (elapsedTime' = 0 /\ ~childUpdateFinished') ]_vars
    /\ [][ (/\ decorator = "none" /\ lastOp = "reset" /\ lastOp' = "update"
            /\ polled' # <<>>) =>
             (prevRunning' = NO_RUNNING_CHILD /\ polled'[1].index = 0) ]_vars

\* C34: whenever the cap is finite, the composite has at most that many
\* children, after whatever calls of addChild, addChildren and
\* setMaxChildrenSize.
C34_CountWithinCap ==
    (pc = "idle" /\ maxChildrenSize # INFINITE_CHILDREN)
       => Len(children) <= maxChildrenSize

\* C35: a call setMaxChildrenSize(n, _) with n # 0 that succeeds leaves the
\* cap equal to n.
C35_CapIsArgument ==
    [][ (lastOp' = "setMaxChildrenSize" /\ arg'[1] # 0 /\ ret' = TRUE)
          => maxChildrenSize' = arg'[1] ]_vars

\* C36: within one update of a composite the children are polled in strictly
\* increasing index order, a resumed running child first included.
C36_PollsIncrease ==
    lastOp = "update" =>
       \A i, j \in 1..Len(polled) : i < j => polled[i].index < polled[j].index

\* The running child index is unset, or is the index of the child that last
\* returned RUNNING.
RunningIndexTrue ==
    \/ runningChildIndex = NO_RUNNING_CHILD
    \/ /\ isRunningChildIndexValid(children, runningChildIndex)
       /\ runningNode # nullptr
       /\ runningNode = At(children, runningChildIndex)

\* C37: for a Selector or Sequence whose remembered index has not been
\* invalidated by a change of the children, after every update the running
\* child index is set exactly if the update returned RUNNING, and it is then
\* the index of the child whose poll returned RUNNING; an update that follows
\* an update with another result starts at child 0.
C37_RunningIndexIffRunning ==
    /\ [][ (/\ kind \in {"Selector", "Sequence"} /\ RunningIndexTrue
            /\ lastOp' = "update") =>
             /\ (runningChildIndex' # NO_RUNNING_CHILD) <=> (ret' = "RUNNING")
             /\ ret' = "RUNNING" =>
                  /\ polled' # <<>>
                  /\ polled'[Len(polled')].state = "RUNNING"
                  /\ polled'[Len(polled')].index = runningChildIndex' ]_vars
    /\ [][ (/\ kind \in {"Selector", "Sequence"} /\ RunningIndexTrue
            /\ lastOp = "update" /\ ret # "RUNNING"
            /\ lastOp' = "update" /\ polled' # <<>>) =>
             polled'[1].index = 0 ]_vars

\* A Selector whose second child is RUNNING, remembered at index 1.
C37_Witness ==
    /\ kind = "Selector" /\ lastOp = "update" /\ ret = "RUNNING"
    /\ runningChildIndex = 1 /\ Len(children) = 2
    /\ StatusSeq(polled) = <<"FAILURE", "RUNNING">>

\* C38: every call of setMaxChildrenSize comes to an end, the truncating
\* call with cleanUpRemains = true included: no call is still inside its
\* clean-up loop with nothing left that could end it.
C38_SetMaxTerminates ==
    lastOp = "setMaxChildrenSize" => pc = "idle"

\* C39: DecoratorNode::addChild(child, overwrite).  A null child leaves the
\* decorator's child as it is; a non-null child replaces it when overwrite is
\* true, and when overwrite is false it is installed only if the decorator
\* has no child, an existing child being kept.
C39_DecoratorAddChild ==
    [][ (decorator \in Decorators /\ lastOp' = "addChild") =>
          decChild' = (IF arg'[1] = nullptr THEN decChild
                       ELSE IF arg'[2] THEN arg'[1]
                       ELSE IF decChild = nullptr THEN arg'[1]
                       ELSE decChild) ]_vars

\* C40: the Locker of the BTree revision.  The first update after
\* construction polls the child; an update whose poll returned RUNNING
\* returns RUNNING and the next update polls again; once the child has
\* returned SUCCESS or FAILURE every update with the accumulated delta below
\* duration returns RUNNING without a poll, and the first update with the
\* accumulated delta at or above duration returns the cached result and
\* leaves the Locker with no cached result and elapsedTime 0.
C40_Locker ==
    /\ [][ (/\ decorator = "Locker" /\ decChild # nullptr /\ lastOp = "none"
            /\ lastOp' = "update") =>
             (Len(polled') = 1 /\ polled'[1].node = decChild) ]_vars
    /\ [][ (/\ decorator = "Locker" /\ decChild # nullptr
            /\ lastOp = "update" /\ polled # <<>>
            /\ polled[1].state = "RUNNING" /\ lastOp' = "update") =>
             (ret = "RUNNING" /\ Len(polled') = 1) ]_vars
    /\ [][ (/\ decorator = "Locker" /\ decChild # nullptr
            /\ statusResult \in {"SUCCESS", "FAILURE"}
            /\ lastOp' = "update") =>
             /\ polled' = <<>>
             /\ IF elapsedTime + arg'[1] < duration
                THEN /\ ret' = "RUNNING"
                     /\ statusResult' = statusResult
                     /\ elapsedTime' = elapsedTime + arg'[1]
                ELSE /\ ret' = statusResult
                     /\ statusResult' = "NONE"
                     /\ elapsedTime' = 0 ]_vars
====
